---- MODULE Spec2Model ----
(***************************************************************************)
(* Authentication middleware of warp (src/filters/auth.rs) together with   *)
(* the Authorization header decoders (src/filters/authorization.rs) and    *)
(* the example authorizer (examples/basic_auth.rs).                        *)
(*                                                                         *)
(* Header values are sequences of one-character strings.  Decoded Basic    *)
(* credentials are sequences of code points (integers).                    *)
(***************************************************************************)
EXTENDS Integers, Sequences, FiniteSets, TLC

(***************************************************************************)
(* Bounds                                                                  *)
(***************************************************************************)
\* number of requests in flight through one middleware
NumReqs == 2
\* how many times one future may answer Pending before it resolves
MaxPolls == 1

Reqs == 1..NumReqs

(***************************************************************************)
(* Option values                                                           *)
(***************************************************************************)
None == [some |-> FALSE]
Some(x) == [some |-> TRUE, val |-> x]

(***************************************************************************)
(* Header value primitives                                                 *)
(***************************************************************************)
Base64Alphabet ==
  <<"A","B","C","D","E","F","G","H","I","J","K","L","M","N","O","P","Q","R",
    "S","T","U","V","W","X","Y","Z","a","b","c","d","e","f","g","h","i","j",
    "k","l","m","n","o","p","q","r","s","t","u","v","w","x","y","z","0","1",
    "2","3","4","5","6","7","8","9","+","/">>

Base64Chars == {Base64Alphabet[i] : i \in 1..64}

\* the visible ASCII characters the modelled header values use
VisibleAscii == Base64Chars \cup {" ", "=", ":", "!", "-", "."}

Whitespace == {" ", "\t"}

\* HeaderValue::to_str: Err when a byte is not visible ASCII
to_str(value) ==
  IF \A i \in 1..Len(value) : value[i] \in VisibleAscii \cup {"\t"}
  THEN Some(value) ELSE None

\* str::split_whitespace: the maximal runs of non-whitespace characters
WordStarts(s) ==
  {i \in 1..Len(s) : s[i] \notin Whitespace /\ (i = 1 \/ s[i - 1] \in Whitespace)}

WordEnd(s, i) ==
  CHOOSE e \in i..Len(s) :
    /\ \A j \in i..e : s[j] \notin Whitespace
    /\ (e = Len(s) \/ s[e + 1] \in Whitespace)

split_whitespace(s) ==
  [k \in 1..Cardinality(WordStarts(s)) |->
     LET i == CHOOSE x \in WordStarts(s) :
                Cardinality({y \in WordStarts(s) : y < x}) = k - 1
     IN SubSeq(s, i, WordEnd(s, i))]

\* parse with a missing credentials part defaulted to the empty string
parse_NoToken(scheme, value) ==
  LET s == to_str(value) IN
  IF ~s.some THEN None
  ELSE LET parts == split_whitespace(s.val) IN
       IF Len(parts) = 0 THEN None
       ELSE IF parts[1] # scheme THEN None
       ELSE IF Len(parts) < 2 THEN Some(<<>>)
       ELSE Some(parts[2])

\* Returns credentials part of header value if scheme matches the desired
\* scheme: the second whitespace-separated part when the first equals scheme.
parse(scheme, value) ==
  LET s == to_str(value) IN
  IF ~s.some THEN None
  ELSE LET parts == split_whitespace(s.val) IN
       IF Len(parts) = 0 THEN None
       ELSE IF parts[1] # scheme THEN None
       ELSE IF Len(parts) < 2 THEN None
       ELSE Some(parts[2])

(***************************************************************************)
(* base64::decode (standard alphabet, optional trailing padding)           *)
(***************************************************************************)
B64Index(c) == (CHOOSE i \in 1..64 : Base64Alphabet[i] = c) - 1

\* the input without its trailing padding, at most two '='
StripPadding(s) ==
  IF Len(s) >= 2 /\ s[Len(s)] = "=" /\ s[Len(s) - 1] = "="
  THEN SubSeq(s, 1, Len(s) - 2)
  ELSE IF Len(s) >= 1 /\ s[Len(s)] = "="
  THEN SubSeq(s, 1, Len(s) - 1)
  ELSE s

\* byte k of the decoded input: 8 of the 12 bits of the two characters
\* it lies in
B64Groups(s) ==
  [k \in 1..((Len(s) * 6) \div 8) |->
     LET bit == 8 * (k - 1)
         i == bit \div 6 + 1
         v == B64Index(s[i]) * 64 + B64Index(s[i + 1])
         shift == 4 - (bit % 6)
     IN (v \div (2 ^ shift)) % 256]

base64_decode(s) ==
  LET body == StripPadding(s) IN
  IF /\ \A i \in 1..Len(body) : body[i] \in Base64Chars
     /\ Len(body) % 4 # 1
  THEN Some(B64Groups(body)) ELSE None

\* String::from_utf8_lossy on bytes: ASCII bytes are kept, a byte that is
\* not valid UTF-8 on its own becomes U+FFFD
from_utf8_lossy(bytes) ==
  [i \in 1..Len(bytes) |-> IF bytes[i] < 128 THEN bytes[i] ELSE 65533]

Colon == 58

\* slice::splitn(2, |b| *b == b':'): the part before the first ':' and, when
\* there is a ':', everything after it
FirstColon(d) ==
  IF \E i \in 1..Len(d) : d[i] = Colon
  THEN CHOOSE i \in 1..Len(d) : d[i] = Colon /\ \A j \in 1..(i - 1) : d[j] # Colon
  ELSE 0

\* the split made at the last ':' of the payload
splitn2_LastColon(d) ==
  LET cs == {i \in 1..Len(d) : d[i] = Colon} IN
  IF cs = {} THEN <<Some(d), None>>
  ELSE LET c == CHOOSE i \in cs : \A j \in cs : j <= i IN
       <<Some(SubSeq(d, 1, c - 1)), Some(SubSeq(d, c + 1, Len(d)))>>

splitn2(d) ==
  LET c == FirstColon(d) IN
  IF c = 0 THEN <<Some(d), None>>
  ELSE <<Some(SubSeq(d, 1, c - 1)), Some(SubSeq(d, c + 1, Len(d)))>>

(***************************************************************************)
(* authorization.rs: the Basic and Bearer decoders                         *)
(***************************************************************************)
BasicScheme == <<"B","a","s","i","c">>
BearerScheme == <<"B","e","a","r","e","r">>

\* basic(): parse("Basic", val), base64-decode, split at ':'
authorization_basic(value) ==
  LET s == parse(BasicScheme, value) IN
  IF ~s.some THEN None
  ELSE LET d == base64_decode(s.val) IN
       IF ~d.some THEN None
       ELSE LET sp == splitn2(d.val) IN
            IF ~sp[1].some \/ ~sp[2].some THEN None
            ELSE Some([user |-> from_utf8_lossy(sp[1].val),
                       password |-> from_utf8_lossy(sp[2].val)])

\* bearer(): parse("Bearer", val) wrapped as BearerToken
authorization_bearer(value) ==
  LET s == parse(BearerScheme, value) IN
  IF ~s.some THEN None ELSE Some([token |-> s.val])

\* header::value(&AUTHORIZATION, f): f applied to the header when present
NoHeaders == [present |-> FALSE]
WithAuthorization(v) == [present |-> TRUE, value |-> v]

(***************************************************************************)
(* auth.rs: AuthHeader and Authorizer::extract_header                      *)
(***************************************************************************)
AuthHeaderBasic(b) == [type |-> "Basic", user |-> b.user, password |-> b.password]
AuthHeaderBearer(b) == [type |-> "Bearer", token |-> b.token]

\* The typed decode of the Authorization header is done by the decoders of
\* authorization.rs above.
\* typed_try_get::<Authorization<Basic>>() matching Ok(Some(header))
typed_try_get_basic(headers) ==
  IF ~headers.present THEN None ELSE authorization_basic(headers.value)

\* typed_try_get::<Authorization<Bearer>>() matching Ok(Some(header))
typed_try_get_bearer(headers) ==
  IF ~headers.present THEN None ELSE authorization_bearer(headers.value)

\* extract_header without the Bearer attempt
extract_header_BasicOnly(headers) ==
  IF typed_try_get_basic(headers).some
  THEN [some |-> TRUE,
        val |-> AuthHeaderBasic(typed_try_get_basic(headers).val)]
  ELSE [some |-> FALSE]

extract_header(headers) ==
  IF typed_try_get_basic(headers).some
  THEN Some(AuthHeaderBasic(typed_try_get_basic(headers).val))
  ELSE IF typed_try_get_bearer(headers).some
  THEN Some(AuthHeaderBearer(typed_try_get_bearer(headers).val))
  ELSE None

(***************************************************************************)
(* Results and rejections                                                  *)
(***************************************************************************)
Ok(x) == [ok |-> TRUE, val |-> x]
Err(e) == [ok |-> FALSE, err |-> e]

\* task::Poll
Pending == [ready |-> FALSE]
Ready(x) == [ready |-> TRUE, res |-> x]

\* reject::unauthorized_challenge(scheme, realm)
unauthorized_challenge(scheme, realm) ==
  [kind |-> "Unauthorized", scheme |-> scheme, realm |-> realm]

\* reject::forbidden()
forbidden == [kind |-> "Forbidden", scheme |-> "", realm |-> ""]

\* rejections other filters and handlers produce
OtherRejection(kind) == [kind |-> kind, scheme |-> "", realm |-> ""]

\* rendering of a rejection by the error-handling layer: status and the
\* WWW-Authenticate challenge (scheme, realm) when there is one
Render(rejection) ==
  IF rejection.kind = "Unauthorized"
  THEN [status |-> 401, www_authenticate |-> Some(<<rejection.scheme, rejection.realm>>)]
  ELSE IF rejection.kind = "Forbidden"
  THEN [status |-> 403, www_authenticate |-> None]
  ELSE IF rejection.kind = "NotFound"
  THEN [status |-> 404, www_authenticate |-> None]
  ELSE IF rejection.kind = "MethodNotAllowed"
  THEN [status |-> 405, www_authenticate |-> None]
  ELSE [status |-> 500, www_authenticate |-> None]

\* err.into(): the blanket From<T> for T into the combined rejection type
Into(err) == err

(***************************************************************************)
(* Authorizers: the handler closures handed to auth()                      *)
(***************************************************************************)
Alice == <<97,108,105,99,101>>
Secret == <<115,101,99,114,101,116>>
Tok123 == <<"t","o","k","1","2","3">>

\* examples/basic_auth.rs: the users map built in main
ExampleUsers ==
  {<<(<<80,101,114,115,111,110,79,110,101>>),
     (<<67,111,114,114,101,99,116,72,111,114,115,101,66,97,116,116,101,114,121,83,116,97,112,108,101>>)>>,
   <<(<<80,101,114,115,111,110,84,119,111>>), (<<72,117,110,116,101,114,50>>)>>}

\* examples/basic_auth.rs: impl Authorizer for Auth, fn basic
ExampleBasic(b) ==
  IF \E u \in ExampleUsers : u[1] = b.user /\ u[2] = b.password
  THEN Ok("unit") ELSE Err(OtherRejection("Unit"))

\* the Authorizer trait's operation a caller did not implement: Deny
DefaultDeny(b) == Err(OtherRejection("Unit"))

\* the trait authorizer of the example: basic implemented, bearer defaulted
TraitAuthorizer(header) ==
  IF header.type = "Basic" THEN ExampleBasic(header) ELSE DefaultDeny(header)

\* the handlers a middleware is built with in this model
Handlers == {"alice_only", "token_only", "example", "any"}
DeterministicHandlers == {"alice_only", "token_only", "example"}

\* the results the future returned by a handler may resolve to
HandlerResults(handler, header) ==
  IF handler = "alice_only"
  THEN IF header.type = "Basic" /\ header.user = Alice /\ header.password = Secret
       THEN {Ok("unit")} ELSE {Err(OtherRejection("Custom"))}
  ELSE IF handler = "token_only"
  THEN IF header.type = "Bearer" /\ header.token = Tok123
       THEN {Ok("unit")} ELSE {Err(forbidden)}
  ELSE IF handler = "example"
  THEN {TraitAuthorizer(header)}
  ELSE {Ok("unit"), Err(OtherRejection("NotFound"))}

\* every result a handler of this model may produce
AuthResults ==
  {Ok("unit"), Err(forbidden)}
    \cup {Err(OtherRejection(k)) : k \in {"Custom", "Unit", "NotFound"}}

\* Authorizer::handle_request: (self.handler)(header)
handle_request(authorizer, header) == HandlerResults(authorizer.handler, header)

(***************************************************************************)
(* Composition glue: auth(), basic(), WrapSealed::wrap                     *)
(***************************************************************************)
auth(scheme, realm, handler) ==
  [scheme |-> scheme, realm |-> realm,
   authorizer |-> [scheme |-> scheme, realm |-> realm, handler |-> handler]]

basic(realm, handler) == auth("Basic", realm, handler)

\* wrap(): the AuthFilter shares scheme, realm and authorizer of the Authed
wrap(authed) ==
  [authorizer |-> authed.authorizer, scheme |-> authed.scheme, realm |-> authed.realm]

\* the middlewares of this model
Configs ==
  { wrap(basic("test", "alice_only")),
    wrap(auth("Bearer", "test", "token_only")),
    wrap(basic("MyRealm", "example")),
    wrap(basic("test", "any")) }

(***************************************************************************)
(* Requests                                                                *)
(***************************************************************************)
HdrAliceSecret ==
  <<"B","a","s","i","c"," ","Y","W","x","p","Y","2","U","6","c","2","V","j","c","m","V","0">>
HdrWrongWrong ==
  <<"B","a","s","i","c"," ","d","3","J","v","b","m","c","6","d","3","J","v","b","m","c","=">>
HdrBearerTok == <<"B","e","a","r","e","r"," ","t","o","k","1","2","3">>
HdrBearerWrong == <<"B","e","a","r","e","r"," ","w","r","o","n","g">>
HdrBearerNoToken == <<"B","e","a","r","e","r">>
HdrBasicBadBase64 == <<"B","a","s","i","c"," ","!","!","!","!">>
HdrBasicNoColon == <<"B","a","s","i","c"," ","Y","W","x","p","Y","2","U","=">>

MalformedValues == {HdrBearerNoToken, HdrBasicBadBase64, HdrBasicNoColon}

HeaderValues ==
  {HdrAliceSecret, HdrWrongWrong, HdrBearerTok, HdrBearerWrong} \cup MalformedValues

RequestHeaders == {NoHeaders} \cup {WithAuthorization(v) : v \in HeaderValues}

\* the credential extract_header gives for each header map of the model,
\* as a table of pairs
CredentialTable == {<<h, extract_header(h)>> : h \in RequestHeaders}

CredentialOf == [h \in RequestHeaders |->
                   (CHOOSE p \in CredentialTable : p[1] = h)[2]]

\* what the inner filter's future may resolve to
InnerResults ==
  {Ok("README"), Err(OtherRejection("NotFound")), Err(OtherRejection("MethodNotAllowed"))}

\* Reply::into_response of the inner filter's reply
InnerIntoResponse(reply) == [status |-> 200, body |-> reply]

(***************************************************************************)
(* State                                                                   *)
(***************************************************************************)
VARIABLES
  config,    \* the AuthFilter: scheme, realm, authorizer
  route,     \* route[r]: the headers of request r
  fut,       \* fut[r]: which future request r is in
  wrapped,   \* wrapped[r]: the (authorizer, header) pair its future holds
  authRes,   \* authRes[r]: what the authorizer's future resolved to
  innerRes,  \* innerRes[r]: what the inner filter's future resolved to
  out,       \* out[r]: the output the request ended with
  response,  \* response[r]: the response made from a Wrapped reply
  polls,     \* polls[r]: Pending answers of the future r is in
  log,       \* log[r]: the calls made for r, in order
  extract,   \* extract[r]: the output of the future filter() returned
  decoded    \* decoded[r]: what the filters of authorization.rs extracted

vars == <<config, route, fut, wrapped, authRes, innerRes, out, response, polls, log,
          extract, decoded>>

Init ==
  /\ config \in Configs
  /\ route \in [Reqs -> RequestHeaders]
  /\ fut = [r \in Reqs |-> "NotStarted"]
  /\ wrapped = [r \in Reqs |-> None]
  /\ authRes = [r \in Reqs |-> None]
  /\ innerRes = [r \in Reqs |-> None]
  /\ out = [r \in Reqs |-> None]
  /\ response = [r \in Reqs |-> None]
  /\ polls = [r \in Reqs |-> 0]
  /\ log = [r \in Reqs |-> <<>>]
  /\ extract = [r \in Reqs |-> None]
  /\ decoded = [r \in Reqs |-> [basic |-> None, bearer |-> None]]

(***************************************************************************)
(* AuthFilter::filter                                                      *)
(***************************************************************************)
\* filter() with the challenge's scheme written out instead of self.scheme
AuthFilter_filter_FixedScheme(cfg, header) ==
  IF header.some
  THEN [fut |-> "Pending",
        wrapped |-> Some(<<cfg.authorizer, header.val>>),
        out |-> None,
        calls |-> <<"handle_request">>]
  ELSE [fut |-> "Ready",
        wrapped |-> None,
        out |-> Some(Err(Into(unauthorized_challenge("Basic", cfg.realm)))),
        calls |-> <<>>]

\* filter() building the pending future around inner.filter(Internal)
AuthFilter_filter_EagerInner(cfg, header) ==
  IF header.some
  THEN [fut |-> "Pending",
        wrapped |-> Some(<<cfg.authorizer, header.val>>),
        out |-> None,
        calls |-> <<"inner_filter", "handle_request">>]
  ELSE [fut |-> "Ready",
        wrapped |-> None,
        out |-> Some(Err(Into(unauthorized_challenge(cfg.scheme, cfg.realm)))),
        calls |-> <<>>]

\* filter() refusing a credential once an earlier request has been seen
AuthFilter_filter_SeenBefore(cfg, header) ==
  IF header.some /\ \A q \in Reqs : fut[q] = "NotStarted"
  THEN [fut |-> "Pending",
        wrapped |-> Some(<<cfg.authorizer, header.val>>),
        out |-> None,
        calls |-> <<"handle_request">>]
  ELSE [fut |-> "Ready",
        wrapped |-> None,
        out |-> Some(Err(Into(unauthorized_challenge(cfg.scheme, cfg.realm)))),
        calls |-> <<>>]

\* filter() going to the inner filter without awaiting the authorizer
AuthFilter_filter_NoDecision(cfg, header) ==
  IF header.some
  THEN [fut |-> "Authed",
        wrapped |-> Some(<<cfg.authorizer, header.val>>),
        out |-> None,
        calls |-> <<"handle_request", "inner_filter">>]
  ELSE [fut |-> "Ready",
        wrapped |-> None,
        out |-> Some(Err(Into(unauthorized_challenge(cfg.scheme, cfg.realm)))),
        calls |-> <<>>]

\* filter() answering a future that never resolves when no credential
\* was extracted
AuthFilter_filter_NeverReady(cfg, header) ==
  IF header.some
  THEN [fut |-> "Pending",
        wrapped |-> Some(<<cfg.authorizer, header.val>>),
        out |-> None,
        calls |-> <<"handle_request">>]
  ELSE [fut |-> "Ready",
        wrapped |-> None,
        out |-> None,
        calls |-> <<>>]

\* the future filter() returns for the extracted header, and the calls it
\* makes after extract_header
AuthFilter_filter(cfg, header) ==
  IF header.some
  THEN \* Either::Right(WrappedPendingFuture {inner, auth, wrapped})
       [fut |-> "Pending",
        wrapped |-> Some(<<cfg.authorizer, header.val>>),
        out |-> None,
        calls |-> <<"handle_request">>]
  ELSE \* Either::Left(future::err(unauthorized_challenge(scheme, realm)))
       [fut |-> "Ready",
        wrapped |-> None,
        out |-> Some(Err(Into(unauthorized_challenge(cfg.scheme, cfg.realm)))),
        calls |-> <<>>]

\* filter() waiting until no other request is suspended
filter_Blocking(r) ==
  /\ fut[r] = "NotStarted"
  /\ \A q \in Reqs \ {r} : fut[q] \notin {"Pending", "Authed"}
  /\ LET f == AuthFilter_filter(config, CredentialOf[route[r]]) IN
       /\ fut' = [fut EXCEPT ![r] = f.fut]
       /\ wrapped' = [wrapped EXCEPT ![r] = f.wrapped]
       /\ out' = [out EXCEPT ![r] = f.out]
       /\ log' = [log EXCEPT ![r] = @ \o <<"extract_header">> \o f.calls]
       /\ extract' = [extract EXCEPT ![r] = f.out]
  /\ UNCHANGED <<config, route, authRes, innerRes, response, polls, decoded>>

\* route::with(|route| extract_header(route.headers())), then the match
filter(r) ==
  /\ fut[r] = "NotStarted"
  /\ LET f == AuthFilter_filter(config, CredentialOf[route[r]]) IN
       /\ fut' = [fut EXCEPT ![r] = f.fut]
       /\ wrapped' = [wrapped EXCEPT ![r] = f.wrapped]
       /\ out' = [out EXCEPT ![r] = f.out]
       /\ log' = [log EXCEPT ![r] = @ \o <<"extract_header">> \o f.calls]
       /\ extract' = [extract EXCEPT ![r] = f.out]
  /\ UNCHANGED <<config, route, authRes, innerRes, response, polls, decoded>>

(***************************************************************************)
(* WrappedPendingFuture::poll                                              *)
(***************************************************************************)
\* poll handing the authorizer's own error on
WrappedPendingFuture_poll_PropagateErr(w, p) ==
  IF ~p.ready
  THEN [poll |-> Pending, calls |-> <<>>]
  ELSE IF p.res.ok
  THEN [poll |-> Ready(Ok([wrapped |-> w])), calls |-> <<"inner_filter">>]
  ELSE [poll |-> Ready(Err(Into(p.res.err))), calls |-> <<>>]

\* poll going on to the inner filter whatever the authorizer answered
WrappedPendingFuture_poll_IgnoreErr(w, p) ==
  IF ~p.ready
  THEN [poll |-> Pending, calls |-> <<>>]
  ELSE [poll |-> Ready(Ok([wrapped |-> w])), calls |-> <<"inner_filter">>]

\* poll letting a denied request through while another request is authorized
WrappedPendingFuture_poll_SharedFlag(w, p) ==
  IF ~p.ready
  THEN [poll |-> Pending, calls |-> <<>>]
  ELSE IF p.res.ok \/ \E q \in Reqs : fut[q] = "Authed"
  THEN [poll |-> Ready(Ok([wrapped |-> w])), calls |-> <<"inner_filter">>]
  ELSE [poll |-> Ready(Err(Into(forbidden))), calls |-> <<>>]

\* poll asking the handler again each time its future is not ready
WrappedPendingFuture_poll_Reinvoke(w, p) ==
  IF ~p.ready
  THEN [poll |-> Pending, calls |-> <<"handle_request">>]
  ELSE IF p.res.ok
  THEN [poll |-> Ready(Ok([wrapped |-> w])), calls |-> <<"inner_filter">>]
  ELSE [poll |-> Ready(Err(Into(forbidden))), calls |-> <<>>]

\* poll handing a not-found error of the authorizer on
WrappedPendingFuture_poll_NotFoundPasses(w, p) ==
  IF ~p.ready
  THEN [poll |-> Pending, calls |-> <<>>]
  ELSE IF p.res.ok
  THEN [poll |-> Ready(Ok([wrapped |-> w])), calls |-> <<"inner_filter">>]
  ELSE IF p.res.err.kind = "NotFound"
  THEN [poll |-> Ready(Err(Into(p.res.err))), calls |-> <<>>]
  ELSE [poll |-> Ready(Err(Into(forbidden))), calls |-> <<>>]

\* p is what auth.try_poll answers
WrappedPendingFuture_poll(w, p) ==
  IF ~p.ready
  THEN \* ready!: the authorizer's future is not ready
       [poll |-> Pending, calls |-> <<>>]
  ELSE IF p.res.ok
  THEN \* Ok(_): a WrappedAuthedFuture around inner.filter(Internal)
       [poll |-> Ready(Ok([wrapped |-> w])), calls |-> <<"inner_filter">>]
  ELSE \* Err(err): forbidden
       [poll |-> Ready(Err(Into(forbidden))), calls |-> <<>>]

PollPending(r) ==
  /\ fut[r] = "Pending"
  /\ \E p \in {Pending} \cup {Ready(x) : x \in AuthResults} :
       /\ p.ready => p.res \in handle_request(wrapped[r].val[1], wrapped[r].val[2])
       /\ ~p.ready => polls[r] < MaxPolls
       /\ LET o == WrappedPendingFuture_poll(wrapped[r].val, p) IN
            /\ authRes' = [authRes EXCEPT ![r] = IF p.ready THEN Some(p.res) ELSE @]
            /\ polls' = [polls EXCEPT ![r] =
                           IF o.poll.ready THEN 0
                           ELSE IF @ < MaxPolls THEN @ + 1 ELSE @]
            /\ extract' = [extract EXCEPT ![r] =
                             IF o.poll.ready THEN Some(o.poll.res) ELSE @]
            /\ fut' = [fut EXCEPT ![r] =
                         IF ~o.poll.ready THEN @
                         ELSE IF o.poll.res.ok THEN "Authed" ELSE "Complete"]
            /\ out' = [out EXCEPT ![r] =
                         IF o.poll.ready /\ ~o.poll.res.ok THEN Some(o.poll.res) ELSE @]
            /\ log' = [log EXCEPT ![r] =
                         @ \o (IF ~p.ready THEN <<>>
                               ELSE IF p.res.ok THEN <<"auth_ok">> ELSE <<"auth_err">>)
                           \o o.calls]
  /\ UNCHANGED <<config, route, wrapped, innerRes, response, decoded>>

(***************************************************************************)
(* WrappedAuthedFuture::poll                                               *)
(***************************************************************************)
\* poll answering forbidden for an error of the inner filter
WrappedAuthedFuture_poll_Rewrite(w, p) ==
  IF ~p.ready
  THEN Pending
  ELSE IF p.res.ok
  THEN Ready(Ok([wrapped |-> w, inner |-> p.res.val]))
  ELSE Ready(Err(Into(forbidden)))

\* p is what inner.try_poll answers
WrappedAuthedFuture_poll(w, p) ==
  IF ~p.ready
  THEN Pending
  ELSE IF p.res.ok
  THEN \* Ok(inner): Wrapped {wrapped, inner}
       Ready(Ok([wrapped |-> w, inner |-> p.res.val]))
  ELSE \* Err(err): err.into()
       Ready(Err(Into(p.res.err)))

PollAuthed(r) ==
  /\ fut[r] = "Authed"
  /\ \E p \in {Pending} \cup {Ready(x) : x \in InnerResults} :
       /\ ~p.ready => polls[r] < MaxPolls
       /\ LET o == WrappedAuthedFuture_poll(wrapped[r].val, p) IN
            /\ innerRes' = [innerRes EXCEPT ![r] = IF p.ready THEN Some(p.res) ELSE @]
            /\ polls' = [polls EXCEPT ![r] =
                           IF o.ready THEN 0
                           ELSE IF @ < MaxPolls THEN @ + 1 ELSE @]
            /\ fut' = [fut EXCEPT ![r] = IF o.ready THEN "Complete" ELSE @]
            /\ out' = [out EXCEPT ![r] = IF o.ready THEN Some(o.res) ELSE @]
            /\ log' = [log EXCEPT ![r] =
                         @ \o (IF ~p.ready THEN <<>>
                               ELSE IF p.res.ok THEN <<"inner_ok">> ELSE <<"inner_err">>)]
  /\ UNCHANGED <<config, route, wrapped, authRes, response, extract, decoded>>

(***************************************************************************)
(* Wrapped::into_response                                                  *)
(***************************************************************************)
\* into_response answering with a reply of the middleware's own
Wrapped_into_response_OwnReply(w) == InnerIntoResponse("Authorized")

Wrapped_into_response(w) == InnerIntoResponse(w.inner)

into_response(r) ==
  /\ fut[r] = "Complete"
  /\ out[r].some /\ out[r].val.ok
  /\ ~response[r].some
  /\ response' = [response EXCEPT ![r] = Some(Wrapped_into_response(out[r].val.val))]
  /\ UNCHANGED <<config, route, fut, wrapped, authRes, innerRes, out, polls, log,
                 extract, decoded>>

(***************************************************************************)
(* Drop of a suspended future (the request is cancelled)                   *)
(***************************************************************************)
\* drop that leaves the (authorizer, header) pair of the future alive
Cancel_Leak(r) ==
  /\ fut[r] \in {"Pending", "Authed"}
  /\ fut' = [fut EXCEPT ![r] = "Dropped"]
  /\ polls' = [polls EXCEPT ![r] = 0]
  /\ UNCHANGED <<config, route, wrapped, authRes, innerRes, out, response, log,
                 extract, decoded>>

Cancel(r) ==
  /\ fut[r] \in {"Pending", "Authed"}
  /\ fut' = [fut EXCEPT ![r] = "Dropped"]
  /\ wrapped' = [wrapped EXCEPT ![r] = None]
  /\ polls' = [polls EXCEPT ![r] = 0]
  /\ UNCHANGED <<config, route, authRes, innerRes, out, response, log,
                 extract, decoded>>

Next ==
  \E r \in Reqs :
    \/ filter(r)
    \/ PollPending(r)
    \/ PollAuthed(r)
    \/ into_response(r)
    \/ Cancel(r)

Spec == Init /\ [][Next]_vars

(***************************************************************************)
(* Vocabulary of the properties                                            *)
(***************************************************************************)
Called(r, c) == \E i \in 1..Len(log[r]) : log[r][i] = c
AuthorizerInvoked(r) == Called(r, "handle_request")
InnerInvoked(r) == Called(r, "inner_filter")

Rejected(r) == out[r].some /\ ~out[r].val.ok
Done(r) == out[r].some /\ out[r].val.ok

\* the request ended with the challenge of the configured scheme and realm,
\* which renders as 401 with WWW-Authenticate
Challenged(r) ==
  /\ fut[r] = "Ready"
  /\ out[r] = Some(Err(unauthorized_challenge(config.scheme, config.realm)))
  /\ Render(out[r].val.err) =
       [status |-> 401, www_authenticate |-> Some(<<config.scheme, config.realm>>)]

\* the request ended with forbidden, which renders as 403
Forbidden(r) ==
  /\ fut[r] = "Complete"
  /\ out[r] = Some(Err(forbidden))
  /\ Render(out[r].val.err).status = 403

Credential(r) == CredentialOf[route[r]]
AuthorizerRejects(r) == authRes[r].some /\ ~authRes[r].val.ok
AuthorizerAccepts(r) == authRes[r].some /\ authRes[r].val.ok

\* C1: a request without Authorization header ends Rejected with the
\* challenge of the configured scheme and realm (401, WWW-Authenticate), and
\* neither the authorizer nor the inner filter is invoked for it.
C1_NoHeaderChallenged ==
  \A r \in Reqs :
    ~route[r].present =>
      /\ ~AuthorizerInvoked(r)
      /\ ~InnerInvoked(r)
      /\ fut[r] # "NotStarted" => Challenged(r)

C1_Witness ==
  \E r \in Reqs : ~route[r].present /\ fut[r] = "Ready" /\ config.scheme = "Bearer"

\* C2: when the authorizer rejects a well-formed credential the outcome is
\* Rejected(Forbidden), 403, and the inner filter is never invoked.
C2_RejectedIsForbidden ==
  \A r \in Reqs :
    (Credential(r).some /\ AuthorizerRejects(r)) =>
      /\ Forbidden(r)
      /\ ~InnerInvoked(r)
      /\ ~response[r].some

C2_Witness ==
  \E r \in Reqs :
    /\ route[r] = WithAuthorization(HdrWrongWrong)
    /\ AuthorizerRejects(r)
    /\ fut[r] = "Complete"

\* C3: when the authorizer accepts the decoded Basic credential, the response
\* the middleware produces is the response of the inner filter's reply.
C3_AcceptedPassThrough ==
  \A r \in Reqs :
    (Credential(r).some /\ Credential(r).val.type = "Basic"
       /\ AuthorizerAccepts(r) /\ response[r].some) =>
      /\ innerRes[r].some /\ innerRes[r].val.ok
      /\ out[r].val.val.inner = innerRes[r].val.val
      /\ response[r].val = InnerIntoResponse(innerRes[r].val.val)

C3_Witness ==
  \E r \in Reqs :
    /\ route[r] = WithAuthorization(HdrAliceSecret)
    /\ config.authorizer.handler = "alice_only"
    /\ response[r].some

\* a header value whose scheme part is Bearer
IsBearerValue(h) ==
  /\ h.present
  /\ to_str(h.value).some
  /\ Len(split_whitespace(h.value)) > 0
  /\ split_whitespace(h.value)[1] = BearerScheme

\* C4: with the configured scheme "Basic", a request with a Bearer header is
\* treated as having no credential: 401, authorizer not consulted, inner
\* filter not invoked.
C4_BearerOnBasicChallenged ==
  \A r \in Reqs :
    (config.scheme = "Basic" /\ IsBearerValue(route[r])) =>
      /\ ~AuthorizerInvoked(r)
      /\ ~InnerInvoked(r)
      /\ fut[r] # "NotStarted" => Challenged(r)

\* C5: within one request extract, decide, inner are sequential: the
\* authorizer is invoked only after extraction gave a credential, the inner
\* filter only after the authorizer's decision resolved to Accept.
C5_Sequential ==
  \A r \in Reqs : \A i \in 1..Len(log[r]) :
    /\ log[r][i] = "handle_request" =>
         /\ Credential(r).some
         /\ \E j \in 1..(i - 1) : log[r][j] = "extract_header"
    /\ log[r][i] = "inner_filter" =>
         /\ AuthorizerAccepts(r)
         /\ \E j \in 1..(i - 1) :
              /\ log[r][j] = "auth_ok"
              /\ \E k \in 1..(j - 1) : log[r][k] = "handle_request"

C5_Witness ==
  \E r \in Reqs : InnerInvoked(r) /\ innerRes[r].some

\* C6: once authorization succeeded, an error of the inner filter is the
\* error the request ends with, unmodified, and no response is made of it.
C6_InnerErrorPropagates ==
  \A r \in Reqs :
    (AuthorizerAccepts(r) /\ innerRes[r].some /\ ~innerRes[r].val.ok) =>
      /\ out[r] = Some(Err(innerRes[r].val.err))
      /\ out[r].val.err.kind \notin {"Unauthorized", "Forbidden"}
      /\ ~response[r].some

C6_Witness ==
  \E r \in Reqs :
    /\ AuthorizerAccepts(r)
    /\ innerRes[r] = Some(Err(OtherRejection("NotFound")))

C8_MalformedChallenged ==
  \A r \in Reqs :
    (route[r].present /\ route[r].value \in MalformedValues) =>
      /\ ~Credential(r).some
      /\ ~AuthorizerInvoked(r)
      /\ ~InnerInvoked(r)
      /\ fut[r] # "NotStarted" => Challenged(r)

C8_Witness ==
  \E r \in Reqs :
    /\ route[r] = WithAuthorization(HdrBearerNoToken)
    /\ config.scheme = "Bearer"
    /\ fut[r] = "Ready"

\* the outcome class of a request: 401, 403 or pass-through
OutcomeClass(r) ==
  IF InnerInvoked(r) THEN "pass"
  ELSE IF Rejected(r) /\ out[r].val.err.kind = "Unauthorized" THEN "401"
  ELSE IF Rejected(r) /\ out[r].val.err.kind = "Forbidden" THEN "403"
  ELSE "none"

\* the authorizer has one answer for the credential of request r
DeterministicFor(r) ==
  Credential(r).some =>
    Cardinality(handle_request(config.authorizer, Credential(r).val)) = 1

\* C9: two requests with the same headers through the same middleware, with
\* an authorizer deterministic for them, end in the same outcome class.
C9_SameRequestSameClass ==
  \A r1, r2 \in Reqs :
    (/\ route[r1] = route[r2]
     /\ DeterministicFor(r1)
     /\ OutcomeClass(r1) # "none"
     /\ OutcomeClass(r2) # "none") =>
      OutcomeClass(r1) = OutcomeClass(r2)

C9_Witness ==
  \E r1, r2 \in Reqs :
    /\ r1 # r2
    /\ route[r1] = route[r2]
    /\ Credential(r1).some
    /\ DeterministicFor(r1)
    /\ OutcomeClass(r1) = "403"
    /\ OutcomeClass(r2) = "403"

\* the outcome of a request processed alone, from its own headers and the
\* answers of its own authorizer and inner futures
SoloOutcome(cfg, h, a, i) ==
  IF ~CredentialOf[h].some
  THEN Some(Err(unauthorized_challenge(cfg.scheme, cfg.realm)))
  ELSE IF ~a.some THEN None
  ELSE IF ~a.val.ok THEN Some(Err(forbidden))
  ELSE IF ~i.some THEN None
  ELSE IF ~i.val.ok THEN Some(Err(i.val.err))
  ELSE Some(Ok([wrapped |-> <<cfg.authorizer, CredentialOf[h].val>>,
                inner |-> i.val.val]))

PerRequest(r) ==
  <<route[r], fut[r], wrapped[r], authRes[r], innerRes[r], out[r],
    response[r], polls[r], log[r], extract[r], decoded[r]>>

\* C10: requests interleave independently: no step modifies the shared
\* config, a step changes the state of one request only, the authorizer's
\* answer recorded for a request is one it gives for that request's own
\* credential, and every outcome is the one the request has when alone.
C10_Independent ==
  /\ [](\A r \in Reqs :
          /\ fut[r] # "NotStarted" =>
               out[r] = SoloOutcome(config, route[r], authRes[r], innerRes[r])
          /\ authRes[r].some =>
               /\ Credential(r).some
               /\ authRes[r].val \in handle_request(config.authorizer, Credential(r).val))
  /\ [][/\ config' = config
        /\ \E r \in Reqs : \A q \in Reqs \ {r} : PerRequest(q)' = PerRequest(q)]_vars

C10_Witness ==
  \E r1, r2 \in Reqs :
    /\ r1 # r2
    /\ fut[r1] = "Pending" /\ polls[r1] > 0
    /\ Done(r2)
    /\ route[r1] # route[r2]

(***************************************************************************)
(* Suspension and cancellation                                             *)
(***************************************************************************)
Suspended(r) == fut[r] \in {"Pending", "Authed"}
InFlight(r) == fut[r] \in {"NotStarted", "Pending", "Authed"}

\* a step of request r that takes it to its next future or to its end
Advance(r) ==
  /\ filter(r) \/ PollPending(r) \/ PollAuthed(r)
  /\ fut'[r] # fut[r]

\* C11: while one request is suspended awaiting the authorizer or the inner
\* filter, every other request still in flight can take its next step, up to
\* its end, with the suspended request left as it is.
C11_NonBlocking ==
  \A r1, r2 \in Reqs :
    (r1 # r2 /\ Suspended(r1) /\ InFlight(r2)) =>
      ENABLED (Advance(r2) /\ PerRequest(r1)' = PerRequest(r1))

C11_Witness ==
  \E r1, r2 \in Reqs :
    /\ r1 # r2
    /\ fut[r1] = "Authed" /\ polls[r1] = MaxPolls
    /\ Forbidden(r2)

\* C12: a request cancelled while suspended is abandoned where it is: no
\* authorizer or inner-filter call follows for it (cancelled mid-decision, it
\* never invokes the inner filter), it holds nothing and has no output, and
\* the cancellation leaves the config and the other requests as they are.
C12_CancelAbandons ==
  /\ [](\A r \in Reqs :
          fut[r] = "Dropped" =>
            /\ wrapped[r] = None
            /\ ~out[r].some /\ ~response[r].some
            /\ ~AuthorizerAccepts(r) => ~InnerInvoked(r))
  /\ [][\A r \in Reqs :
          /\ fut[r] = "Dropped" => PerRequest(r)' = PerRequest(r)
          /\ (fut[r] # "Dropped" /\ fut'[r] = "Dropped") =>
               /\ config' = config
               /\ log'[r] = log[r]
               /\ \A q \in Reqs \ {r} : PerRequest(q)' = PerRequest(q)]_vars

C12_Witness ==
  \E r1, r2 \in Reqs :
    /\ fut[r1] = "Dropped" /\ AuthorizerInvoked(r1) /\ ~authRes[r1].some
    /\ fut[r2] = "Dropped" /\ InnerInvoked(r2)

(***************************************************************************)
(* The state machine of one request                                        *)
(***************************************************************************)
State(r) ==
  IF fut[r] = "NotStarted" THEN "AwaitingCredential"
  ELSE IF fut[r] = "Pending" THEN "AwaitingDecision"
  ELSE IF fut[r] = "Authed" THEN "AwaitingInner"
  ELSE IF fut[r] = "Dropped" THEN "Cancelled"
  ELSE IF Done(r) THEN "Done"
  ELSE "Rejected"

ListedEdges ==
  { <<"AwaitingCredential", "AwaitingDecision">>,
    <<"AwaitingDecision", "AwaitingInner">>,
    <<"AwaitingInner", "Done">>,
    <<"AwaitingCredential", "Rejected">>,
    <<"AwaitingDecision", "Rejected">> }

\* every change of state of a request that is not its cancellation is one of
\* the edges, and nothing is called for a request that is Done or Rejected
MovesAlong(edges) ==
  \A r \in Reqs :
    /\ (State(r)' # State(r) /\ State(r)' # "Cancelled") =>
         <<State(r), State(r)'>> \in edges
    /\ State(r) \in {"Done", "Rejected"} =>
         State(r)' = State(r) /\ log'[r] = log[r]

\* C13 as stated: Rejected is entered only from AwaitingCredential or
\* AwaitingDecision.
C13_ListedEdgesOnly == [][MovesAlong(ListedEdges)]_vars

\* C13: a request moves only along AwaitingCredential -> AwaitingDecision ->
\* AwaitingInner -> Done, with Rejected entered from AwaitingCredential,
\* from AwaitingDecision or, with the inner filter's error, from
\* AwaitingInner; Done and Rejected are terminal and nothing is called after.
C13_Edges ==
  [][MovesAlong(ListedEdges \cup {<<"AwaitingInner", "Rejected">>})]_vars

C13_Witness ==
  \E r1, r2 \in Reqs :
    /\ State(r1) = "Rejected" /\ InnerInvoked(r1) /\ innerRes[r1].some
    /\ State(r2) = "Done" /\ response[r2].some

(***************************************************************************)
(* The output of the future filter() returns                               *)
(***************************************************************************)
\* the value is a Wrapped reply holding a completed inner result
IsWrappedReply(x) == "inner" \in DOMAIN x

\* C14: on Accept the result of the middleware's future is available only
\* after the inner filter has run to completion, and it is the inner
\* filter's completed result with the authorization context, never an inner
\* computation still to be run.
C14_ResultAfterInner ==
  \A r \in Reqs :
    (AuthorizerAccepts(r) /\ extract[r].some /\ extract[r].val.ok) =>
      /\ innerRes[r].some /\ innerRes[r].val.ok
      /\ IsWrappedReply(extract[r].val.val)
      /\ extract[r].val.val.inner = innerRes[r].val.val

\* C15: the middleware's own rejections are Unauthorized{scheme, realm} and
\* Forbidden only, and a failed decision ends Forbidden whatever error the
\* authorizer's future carried: the error is neither handed on nor a pass.
C15_OwnRejections ==
  \A r \in Reqs :
    /\ AuthorizerRejects(r) =>
         /\ extract[r] = Some(Err(forbidden))
         /\ out[r] = extract[r]
         /\ fut[r] = "Complete"
    /\ (extract[r].some /\ ~extract[r].val.ok) =>
         extract[r].val.err \in
           {forbidden, unauthorized_challenge(config.scheme, config.realm)}

C15_Witness ==
  \E r \in Reqs :
    /\ authRes[r] = Some(Err(OtherRejection("NotFound")))
    /\ extract[r] = Some(Err(forbidden))

\* what each typed decode gives for each header map of the model
BasicOf == [h \in RequestHeaders |-> typed_try_get_basic(h)]
BearerOf == [h \in RequestHeaders |-> typed_try_get_bearer(h)]

\* the credential the future of request r holds for the authorizer
Handed(r) == wrapped[r].val[2]

\* C16: a started request has the Basic credential when the Basic decode of
\* its headers succeeds, the Bearer credential when Basic fails and Bearer
\* succeeds, and none (the authorizer is not invoked) when both fail or the
\* header is absent; the authorizer decides on exactly that credential, and
\* two requests with the same headers have the same credential.
C16_OneCredentialInOrder ==
  /\ \A r \in Reqs :
       fut[r] \notin {"NotStarted", "Dropped"} =>
         LET b == BasicOf[route[r]]
             t == BearerOf[route[r]] IN
           /\ b.some =>
                /\ wrapped[r].some
                /\ Handed(r) = [type |-> "Basic", user |-> b.val.user,
                                password |-> b.val.password]
           /\ (~b.some /\ t.some) =>
                /\ wrapped[r].some
                /\ Handed(r) = [type |-> "Bearer", token |-> t.val.token]
           /\ (~b.some /\ ~t.some) =>
                /\ ~wrapped[r].some
                /\ ~AuthorizerInvoked(r)
                /\ ~authRes[r].some
           /\ wrapped[r].some =>
                /\ AuthorizerInvoked(r)
                /\ Handed(r).type \in {"Basic", "Bearer"}
                /\ authRes[r].some =>
                     authRes[r].val \in handle_request(config.authorizer, Handed(r))
  /\ \A r1, r2 \in Reqs :
       (route[r1] = route[r2] /\ fut[r1] \notin {"NotStarted", "Dropped"}
          /\ fut[r2] \notin {"NotStarted", "Dropped"}) =>
         wrapped[r1] = wrapped[r2]

C16_Witness ==
  \E r1, r2 \in Reqs :
    /\ wrapped[r1].some /\ Handed(r1).type = "Basic" /\ authRes[r1].some
    /\ wrapped[r2].some /\ Handed(r2).type = "Bearer" /\ authRes[r2].some

(***************************************************************************)
(* The filters of authorization.rs applied to a request on their own       *)
(***************************************************************************)
\* "Basic YTpiOmM=": a:b:c
HdrBasicTwoColons == <<"B","a","s","i","c"," ","Y","T","p","i","O","m","M","=">>
\* "Basic OnB3": :pw
HdrBasicEmptyUser == <<"B","a","s","i","c"," ","O","n","B","3">>
\* "Basic /zph": the bytes FF 3A 61
HdrBasicNotUtf8 == <<"B","a","s","i","c"," ","/","z","p","h">>
HdrBearerTwoWords ==
  <<"B","e","a","r","e","r"," ","a","b","c"," ","d","e","f">>
HdrBearerDashed ==
  <<"B","e","a","r","e","r"," ","a","-","b",".","c","=">>

DecodeValues ==
  HeaderValues \cup {HdrBasicTwoColons, HdrBasicEmptyUser, HdrBasicNotUtf8,
                     HdrBearerTwoWords, HdrBearerDashed}

DecodeHeaders == {NoHeaders} \cup {WithAuthorization(v) : v \in DecodeValues}

\* header::value(&AUTHORIZATION, f) over the header maps of the model: the
\* filter extracts f's value, and rejects (None) when the header is absent
\* or f gives None
BasicFilterOf ==
  [h \in DecodeHeaders |->
     IF ~h.present THEN None ELSE authorization_basic(h.value)]

BearerFilterOf ==
  [h \in DecodeHeaders |->
     IF ~h.present THEN None ELSE authorization_bearer(h.value)]

InitDecode ==
  /\ config = wrap(basic("test", "alice_only"))
  /\ route \in [Reqs -> DecodeHeaders]
  /\ fut = [r \in Reqs |-> "NotStarted"]
  /\ wrapped = [r \in Reqs |-> None]
  /\ authRes = [r \in Reqs |-> None]
  /\ innerRes = [r \in Reqs |-> None]
  /\ out = [r \in Reqs |-> None]
  /\ response = [r \in Reqs |-> None]
  /\ polls = [r \in Reqs |-> 0]
  /\ log = [r \in Reqs |-> <<>>]
  /\ extract = [r \in Reqs |-> None]
  /\ decoded = [r \in Reqs |-> [basic |-> None, bearer |-> None]]

\* the filter basic() run on request r
DecodeBasic(r) ==
  /\ ~decoded[r].basic.some
  /\ decoded' = [decoded EXCEPT ![r].basic = Some(BasicFilterOf[route[r]])]
  /\ UNCHANGED <<config, route, fut, wrapped, authRes, innerRes, out, response,
                 polls, log, extract>>

\* the filter bearer() run on request r
DecodeBearer(r) ==
  /\ ~decoded[r].bearer.some
  /\ decoded' = [decoded EXCEPT ![r].bearer = Some(BearerFilterOf[route[r]])]
  /\ UNCHANGED <<config, route, fut, wrapped, authRes, innerRes, out, response,
                 polls, log, extract>>

NextDecode ==
  \E r \in Reqs :
    \/ DecodeBasic(r)
    \/ DecodeBearer(r)

SpecDecode == InitDecode /\ [][NextDecode]_vars

\* the base64-decoded credentials part of a Basic header, when there is one
PayloadOf ==
  [h \in DecodeHeaders |->
     IF ~h.present THEN None
     ELSE IF ~parse(BasicScheme, h.value).some THEN None
     ELSE base64_decode(parse(BasicScheme, h.value).val)]

\* C17: the Basic filter gives as username the text of the payload before
\* its first ':' and as password the text of everything after that ':',
\* further ':' included; when the base64 is malformed or the payload has
\* no ':' it gives no credential.
C17_SplitAtFirstColon ==
  \A r \in Reqs :
    decoded[r].basic.some =>
      LET p == PayloadOf[route[r]]
          res == decoded[r].basic.val IN
        IF p.some /\ \E i \in 1..Len(p.val) : p.val[i] = Colon
        THEN /\ res.some
             /\ \E i \in 1..Len(p.val) :
                  /\ p.val[i] = Colon
                  /\ \A j \in 1..(i - 1) : p.val[j] # Colon
                  /\ res.val.user = from_utf8_lossy(SubSeq(p.val, 1, i - 1))
                  /\ res.val.password =
                       from_utf8_lossy(SubSeq(p.val, i + 1, Len(p.val)))
        ELSE res = None

C17_Witness ==
  \E r1, r2 \in Reqs :
    /\ route[r1] = WithAuthorization(HdrBasicTwoColons)
    /\ decoded[r1].basic =
         Some(Some([user |-> <<97>>, password |-> <<98, 58, 99>>]))
    /\ route[r2] \in {WithAuthorization(HdrBasicNoColon),
                      WithAuthorization(HdrBasicBadBase64)}
    /\ decoded[r2].basic = Some(None)

\* C18: the Bearer filter gives a token exactly when the header value is
\* "Bearer " followed by a token, and the token is the whole rest of the
\* value after "Bearer ", unchanged.
C18_TokenIsRemainder ==
  \A r \in Reqs :
    (decoded[r].bearer.some /\ route[r].present) =>
      LET v == route[r].value IN
        IF Len(v) > 7 /\ SubSeq(v, 1, 7) = BearerScheme \o <<" ">>
        THEN decoded[r].bearer.val = Some([token |-> SubSeq(v, 8, Len(v))])
        ELSE decoded[r].bearer.val = None

\* how many times c was called for request r
Calls(r, c) == Cardinality({i \in 1..Len(log[r]) : log[r][i] = c})

\* C19: for one request the authorizer is invoked at most once and the inner
\* filter at most once, whatever the number of polls answered Pending.
C19_AtMostOnce ==
  \A r \in Reqs :
    /\ Calls(r, "handle_request") <= 1
    /\ Calls(r, "inner_filter") <= 1
    /\ Calls(r, "extract_header") <= 1

C19_Witness ==
  \E r1, r2 \in Reqs :
    /\ fut[r1] = "Authed" /\ polls[r1] = MaxPolls
    /\ Calls(r1, "handle_request") = 1 /\ Calls(r1, "inner_filter") = 1
    /\ fut[r2] = "Pending" /\ polls[r2] = MaxPolls
    /\ Calls(r2, "handle_request") = 1 /\ Calls(r2, "inner_filter") = 0

(***************************************************************************)
(* Fair scheduling: a request that can be started is started, and a future  *)
(* that can be polled is polled.  The authorizer's and the inner filter's   *)
(* futures answer Pending at most MaxPolls times.  Cancellation is the      *)
(* caller's choice and is not forced.                                       *)
(***************************************************************************)
\* one header map per way a request can go: no header, accepted and denied
\* Basic credentials, a Bearer token, an undecodable value
FairHeaders ==
  {NoHeaders} \cup
    {WithAuthorization(v) :
       v \in {HdrAliceSecret, HdrWrongWrong, HdrBearerTok, HdrBasicBadBase64}}

FairInit ==
  /\ Init
  /\ \A r \in Reqs : route[r] \in FairHeaders

FairSpec ==
  /\ FairInit
  /\ [][Next]_vars
  /\ \A r \in Reqs :
       /\ WF_vars(filter(r))
       /\ WF_vars(PollPending(r))
       /\ WF_vars(PollAuthed(r))

====
